---- MODULE Spec2Model ----
(***************************************************************************)
(* Model of the feed pipeline of RSS-Server/server.js: the process-wide    *)
(* rssCache and fileGuidCache, the covers_cache directory, the tracks      *)
(* directory, and the two request handlers /rss.xml and /refresh-rss.      *)
(* Every handler is cut at its awaits: one action is the code that runs    *)
(* between two suspension points of one request.                           *)
(*                                                                         *)
(* Time is counted in units of the cache duration (5 minutes).             *)
(* Digests (sha256, md5) are modelled as collision-free: a digest is the   *)
(* tagged input it was computed from.                                      *)
(*                                                                         *)
(* Spec is the server under requests; LiveSpec adds that a handler which   *)
(* can take a step takes it; ChurnSpec is the server while the tracks      *)
(* directory changes any number of times; HelperSpec calls the helper      *)
(* functions (formatDuration, cropToSquare, findAudioFiles,                *)
(* getTracksFolderHash, getTagValue, generateTrackDescription, the sort    *)
(* and slice of the items) on arguments drawn from bounded sets.           *)
(***************************************************************************)
EXTENDS Integers, Sequences, FiniteSets, TLC

\* ------------------------------------------------------------------ bounds
MaxClock == 3
MaxRequests == 2
MaxFsOps == 1
\* helper functions are called with durations up to MaxSeconds, images of
\* sides up to MaxDim (and 2000, 4000), targets up to MaxTarget (and 1000) and
\* lists of up to MaxItems items stamped 0..MaxStamp; directories have up to
\* MaxEntries entries
MaxSeconds == 3800
MaxDim == 6
MaxTarget == 4
MaxItems == 3
MaxStamp == 2
MaxEntries == 3
\* a track has up to MaxFrames ID3v2.4 frames
MaxFrames == 2

\* ------------------------------------------------------------ small domains
Reqs == {1, 2}
\* client r reaches the server under the host name HostOf[r]
HostOf == <<"h1", "h2">>
Paths == {"a", "b"}
NoPicture == ""
\* what a file written to the tracks directory can hold: its size, its
\* embedded picture, and whether parseFile can extract its metadata
Contents == {<<1, "p1", TRUE>>, <<1, "p2", TRUE>>, <<1, NoPicture, FALSE>>}
\* the files that are written or removed while the server runs
Mutable == {"a"}
\* readdir lists the directory in this order
ScanOrder == <<"b", "a">>

\* ------------------------------------------------------------ configuration
CacheDuration == 1
CoverSize == 3000
ChannelImage == "img"
GenerateSquareCovers == TRUE
MaxTracksInRSS == 2

VARIABLES
  clock,          \* Date.now()
  library,        \* the tracks directory: path -> file
  coverStore,     \* filenames present in the covers_cache directory
  rssCache,       \* the process-wide cache entry
  fileGuidCache,  \* the process-wide identifier memo table
  req,            \* per client: handler position, locals, last response
  issued,         \* fileKey -> the first identifier ever handed out for it
  started,        \* number of requests accepted so far
  fsOps,          \* number of changes made to the tracks directory so far
  calc            \* one call of a helper function: its arguments and result

serverVars == <<clock, library, coverStore, rssCache, fileGuidCache, req, issued,
                started, fsOps>>
vars == <<serverVars, calc>>

\* ------------------------------------------------------------------ values
Absent == [present |-> FALSE, size |-> 0, mtime |-> 0, pic |-> NoPicture,
           parses |-> TRUE]
File(size, mtime, pic) ==
  [present |-> TRUE, size |-> size, mtime |-> mtime, pic |-> pic, parses |-> TRUE]
\* a file whose metadata parseFile cannot extract
Corrupt(f) == [f EXCEPT !.parses = FALSE]

NoFile == [kind |-> "", src |-> <<>>, px |-> 0]
NoUrl == [base |-> "", file |-> NoFile]
Url(baseUrl, coverFilename) == [base |-> baseUrl, file |-> coverFilename]

NoHash == <<>>
\* scan is not part of the serialized document: it records the result of the
\* findAudioFiles call the document was built from and the place of that call
\* in the order of the scans
NoScan == [files |-> <<>>, no |-> 0]
NoDoc == [base |-> "", chan |-> NoUrl, items |-> <<>>, scan |-> NoScan]
NoCur == [size |-> 0, mtime |-> 0, pic |-> NoPicture]
\* rebuilt records that the handler ran generateRssData before it answered
NoResp == [status |-> "none", doc |-> NoDoc, itemsCount |-> 0, at |-> 0,
           rebuilt |-> FALSE]

NoCalc == [fn |-> "", args |-> <<>>, result |-> <<>>]

InitCache == [data |-> NoDoc, lastUpdated |-> 0, fileHash |-> NoHash]

\* prev records what the entry was when the handler looked at it (EntryState)
IdleReq == [kind |-> "none", pc |-> "idle", host |-> "", now |-> 0, hash |-> NoHash,
            prev |-> "cold", files |-> <<>>, scanNo |-> 0, i |-> 0,
            chan |-> NoUrl, items |-> <<>>, cur |-> NoCur, resp |-> NoResp]

\* chanHung: downloadImage's promise is pending and nothing can settle it
BuildPcs == {"scan", "chanAccess", "chanDerive", "chanHung",
             "fileStat", "trackAccess", "trackDerive"}

\* ----------------------------------------------------------- pure functions
Range(s) == {s[k] : k \in DOMAIN s}

\* getBaseUrl with no config.server.baseUrl: protocol and host of the request
GetBaseUrl(host) == host

\* findAudioFiles: the audio files of the directory, in enumeration order
FindAudioFiles(lib) == SelectSeq(ScanOrder, LAMBDA p : lib[p].present)

\* getTracksFolderHash: md5 of the sorted, joined path:filename strings
GetTracksFolderHash(files) == <<"md5", Range(files)>>

\* variant: the age is taken without subtracting lastUpdated
ShouldRefreshCache_NoSubtract(cache, now, currentFolderHash) ==
  \/ cache.data = NoDoc
  \/ now > CacheDuration
  \/ currentFolderHash # cache.fileHash

\* variant: an entry exactly as old as the cache duration is refreshed
ShouldRefreshCache_Ge(cache, now, currentFolderHash) ==
  \/ cache.data = NoDoc
  \/ (now - cache.lastUpdated) >= CacheDuration
  \/ currentFolderHash # cache.fileHash

ShouldRefreshCache(cache, now, currentFolderHash) ==
  \/ cache.data = NoDoc
  \/ (now - cache.lastUpdated) > CacheDuration
  \/ currentFolderHash # cache.fileHash

\* generateStableGuid
\* variant: the key is built from the size alone
FileKey_NoPath(filePath, stat) == <<"", stat.size>>

\* filePath + ':' + stat.size
FileKey(filePath, stat) == <<filePath, stat.size>>
Sha256Uuid(fileKey) == <<"urn:uuid", "sha256", fileKey>>

\* variant: the key is built from the modification time instead of the size
GenerateStableGuid_Mtime(filePath, stat, cache) ==
  LET fileKey == <<filePath, stat.mtime>> IN
  IF fileKey \in DOMAIN cache
  THEN [guid |-> cache[fileKey], cache |-> cache, hit |-> TRUE]
  ELSE [guid |-> Sha256Uuid(fileKey),
        cache |-> (fileKey :> Sha256Uuid(fileKey)) @@ cache, hit |-> FALSE]

\* variant: a new entry takes the place of the table
GenerateStableGuid_Replace(filePath, stat, cache) ==
  LET fileKey == FileKey(filePath, stat) IN
  IF fileKey \in DOMAIN cache
  THEN [guid |-> cache[fileKey], cache |-> cache, hit |-> TRUE]
  ELSE [guid |-> Sha256Uuid(fileKey),
        cache |-> (fileKey :> Sha256Uuid(fileKey)), hit |-> FALSE]

GenerateStableGuid(filePath, stat, cache) ==
  LET fileKey == FileKey(filePath, stat) IN
  IF fileKey \in DOMAIN cache
  THEN [guid |-> cache[fileKey], cache |-> cache, hit |-> TRUE]
  ELSE [guid |-> Sha256Uuid(fileKey),
        cache |-> (fileKey :> Sha256Uuid(fileKey)) @@ cache, hit |-> FALSE]

\* cover filenames
ChannelCoverFilename == [kind |-> "channel", src |-> <<"md5", ChannelImage>>, px |-> CoverSize]
TrackCoverFilename(filePath, stat) ==
  [kind |-> "track", src |-> <<"md5", filePath, stat.size>>, px |-> CoverSize]

\* variant: the existence check never finds the file
CoverCached_Never(store, coverFilename) == FALSE

\* fs.access(coverPath) succeeds
CoverCached(store, coverFilename) == coverFilename \in store

\* if (!coverUrl && channelCoverUrl) coverUrl = channelCoverUrl
FallbackCover(coverUrl, channelCoverUrl) ==
  IF coverUrl = NoUrl /\ channelCoverUrl # NoUrl THEN channelCoverUrl ELSE coverUrl

\* pic, coverOutcome and memoHit record how the item came about: the embedded
\* picture, what processTrackCover did, and whether fileGuidCache had the key
MakeItem(filePath, stat, g, coverUrl, outcome) ==
  [path |-> filePath, size |-> stat.size, pubDate |-> stat.mtime, guid |-> g.guid,
   cover |-> coverUrl, pic |-> stat.pic, coverOutcome |-> outcome, memoHit |-> g.hit]

\* items.sort(function(a, b) { return new Date(b.pubDate) - new Date(a.pubDate); })
RECURSIVE SortItems(_)
SortItems(s) ==
  IF s = <<>> THEN <<>>
  ELSE LET n == Len(s)
           pre == SortItems(SubSeq(s, 1, n - 1))
           x == s[n]
           k == Cardinality({j \in 1..(n - 1) : pre[j].pubDate >= x.pubDate})
       IN SubSeq(pre, 1, k) \o <<x>> \o SubSeq(pre, k + 1, n - 1)

Min(a, b) == IF a < b THEN a ELSE b
Max(a, b) == IF a > b THEN a ELSE b

\* variant: the list is cut at its end, keeping the last maxItems items
LimitItems_Tail(items) ==
  SubSeq(items, Len(items) - Min(Len(items), MaxTracksInRSS) + 1, Len(items))

\* items.slice(0, maxItems)
LimitItems(items) == SubSeq(items, 1, Min(Len(items), MaxTracksInRSS))

RssData(baseUrl, channelCoverUrl, items, scan) ==
  [base |-> baseUrl, chan |-> channelCoverUrl,
   items |-> LimitItems(SortItems(items)), scan |-> scan]

\* variant: the time and the signature are stored, the document is not
RssEntry_NoData(rssData, now, currentFolderHash) ==
  [data |-> NoDoc, lastUpdated |-> now, fileHash |-> currentFolderHash]

\* the three assignments after generateRssData resolves in /rss.xml
RssEntry(rssData, now, currentFolderHash) ==
  [data |-> rssData, lastUpdated |-> now, fileHash |-> currentFolderHash]

\* variant: the document is cleared, the time and the signature are kept
ClearedEntry_DataOnly == [rssCache EXCEPT !.data = NoDoc]

\* the three assignments before generateRssData is called in /refresh-rss
ClearedEntry == [data |-> NoDoc, lastUpdated |-> 0, fileHash |-> NoHash]

\* variant: the timestamp and the signature are stored, the document is not
RefreshEntry_NoData(rssData, dateNow, currentFolderHash) ==
  [data |-> NoDoc, lastUpdated |-> dateNow, fileHash |-> currentFolderHash]

\* the three assignments after generateRssData resolves in /refresh-rss
RefreshEntry(rssData, dateNow, currentFolderHash) ==
  [data |-> rssData, lastUpdated |-> dateNow, fileHash |-> currentFolderHash]

\* the document that is serialized; its Last-Modified header is not modelled
RssResponse(cache, rebuilt) ==
  [status |-> "ok", doc |-> cache.data, itemsCount |-> 0, at |-> 0, rebuilt |-> rebuilt]

RefreshResponse(rssData, dateNow) ==
  [status |-> "ok", doc |-> NoDoc, itemsCount |-> Len(rssData.items), at |-> dateNow,
   rebuilt |-> TRUE]

ErrorResponse == [status |-> "error", doc |-> NoDoc, itemsCount |-> 0, at |-> 0,
                  rebuilt |-> TRUE]

Done(l, response) == [IdleReq EXCEPT !.kind = l.kind, !.prev = l.prev, !.resp = response]

\* what the entry is to a handler that looks at it at time now: no document,
\* younger than the cache duration, exactly as old, or older or of another
\* signature
EntryState(cache, now, currentFolderHash) ==
  IF cache.data = NoDoc THEN "cold"
  ELSE IF currentFolderHash # cache.fileHash THEN "stale"
  ELSE IF now - cache.lastUpdated < CacheDuration THEN "fresh"
  ELSE IF now - cache.lastUpdated = CacheDuration THEN "due"
  ELSE "stale"

InBuild(r) == req[r].pc \in BuildPcs

\* ------------------------------------------------- strings, as the code
\* ------------------------------------------------- builds and compares them
\* A string is the sequence of its characters.
CodeUnit ==
  [c \in {".", "/", "0", "1", "2", "3", "4", "5", "6", "7", "8", "9", ":",
          "G", "O", "Z", "d", "g", "m", "n", "o", "p", "t", "x", "z", "|"} |->
     CASE c = "." -> 46 [] c = "/" -> 47 [] c = "0" -> 48 [] c = "1" -> 49
       [] c = "2" -> 50 [] c = "3" -> 51 [] c = "4" -> 52 [] c = "5" -> 53
       [] c = "6" -> 54 [] c = "7" -> 55 [] c = "8" -> 56 [] c = "9" -> 57
       [] c = ":" -> 58 [] c = "G" -> 71 [] c = "O" -> 79 [] c = "Z" -> 90
       [] c = "d" -> 100 [] c = "g" -> 103 [] c = "m" -> 109 [] c = "n" -> 110
       [] c = "o" -> 111 [] c = "p" -> 112 [] c = "t" -> 116 [] c = "x" -> 120
       [] c = "z" -> 122 [] OTHER -> 124]

\* a < b as Array.prototype.sort compares strings: by code units
RECURSIVE StrLess(_, _)
StrLess(a, b) ==
  IF b = <<>> THEN FALSE
  ELSE IF a = <<>> THEN TRUE
  ELSE IF CodeUnit[Head(a)] # CodeUnit[Head(b)]
       THEN CodeUnit[Head(a)] < CodeUnit[Head(b)]
       ELSE StrLess(Tail(a), Tail(b))

\* variant: the list is left in the order it came in
SortStrings_None(list) == list

\* list.sort()
RECURSIVE SortStrings(_)
SortStrings(list) ==
  IF list = <<>> THEN <<>>
  ELSE LET n == Len(list)
           pre == SortStrings(SubSeq(list, 1, n - 1))
           x == list[n]
           k == Cardinality({j \in 1..(n - 1) : ~StrLess(x, pre[j])})
       IN SubSeq(pre, 1, k) \o <<x>> \o SubSeq(pre, k + 1, n - 1)

\* list.join(sep)
RECURSIVE Join(_, _)
Join(list, sep) ==
  IF list = <<>> THEN <<>>
  ELSE IF Len(list) = 1 THEN list[1]
  ELSE list[1] \o sep \o Join(Tail(list), sep)

\* Number.prototype.toString of a non-negative integer
DigitChar(d) == <<"0", "1", "2", "3", "4", "5", "6", "7", "8", "9">>[d + 1]
RECURSIVE NumToString(_)
NumToString(n) ==
  IF n < 10 THEN <<DigitChar(n)>>
  ELSE NumToString(n \div 10) \o <<DigitChar(n % 10)>>

\* variant: the string is returned as it is
PadStart_None(str, targetLength, padChar) == str

\* str.padStart(targetLength, padChar)
RECURSIVE PadStart(_, _, _)
PadStart(str, targetLength, padChar) ==
  IF Len(str) >= targetLength THEN str
  ELSE PadStart(<<padChar>> \o str, targetLength, padChar)

\* formatDuration of a number of seconds
FormatDuration(seconds) ==
  IF seconds = 0 THEN <<"0", "0", ":", "0", "0">>
  ELSE LET hrs == seconds \div 3600
           mins == (seconds % 3600) \div 60
           secs == seconds % 60
       IN IF hrs > 0
          THEN NumToString(hrs) \o <<":">> \o PadStart(NumToString(mins), 2, "0")
               \o <<":">> \o PadStart(NumToString(secs), 2, "0")
          ELSE NumToString(mins) \o <<":">> \o PadStart(NumToString(secs), 2, "0")

\* ------------------------------------------------------------ cropToSquare
\* Math.round(num / den), Math.floor(n / 2), Math.ceil(n / 2)
Round(num, den) == (2 * num + den) \div (2 * den)
FloorHalf(n) == n \div 2
CeilHalf(n) == -((-n) \div 2)

\* variant: the whole remainder is put before the region
CropOffset_NoHalf(dimension, minSize) == dimension - minSize

\* Math.floor((dimension - minSize) / 2)
CropOffset(dimension, minSize) == FloorHalf(dimension - minSize)

\* cropToSquare on an image of width x height: the operations handed to
\* sharp.  In pad mode ratio = Math.min(size / width, size / height), so a
\* side times ratio is side * size / Max(width, height); the quotient is
\* taken exactly, not in floating point.
CropToSquare(width, height, size0, cropMode) ==
  LET size == IF size0 = 0 THEN 3000 ELSE size0 IN
  IF width = height /\ width = size
  THEN [op |-> "jpeg"]
  ELSE IF cropMode = "crop"
  THEN LET minSize == Min(width, height) IN
       [op |-> "crop",
        extract |-> [left |-> CropOffset(width, minSize),
                     top |-> CropOffset(height, minSize),
                     width |-> minSize, height |-> minSize],
        resize |-> [width |-> size, height |-> size]]
  ELSE LET newWidth == Round(width * size, Max(width, height))
           newHeight == Round(height * size, Max(width, height))
       IN [op |-> "pad",
           resize |-> [width |-> newWidth, height |-> newHeight],
           extend |-> [top |-> FloorHalf(size - newHeight),
                       bottom |-> CeilHalf(size - newHeight),
                       left |-> FloorHalf(size - newWidth),
                       right |-> CeilHalf(size - newWidth)]]

ToLowerCase(str) ==
  [k \in DOMAIN str |-> CASE str[k] = "G" -> "g" [] str[k] = "O" -> "o"
                           [] str[k] = "Z" -> "z" [] OTHER -> str[k]]

EndsWith(str, suffix) ==
  /\ Len(str) >= Len(suffix)
  /\ SubSeq(str, Len(str) - Len(suffix) + 1, Len(str)) = suffix

\* /\.(mp3|m4a|flac|wav|ogg)$/i.test(name)
AudioExtensions ==
  {<<".", "m", "p", "3">>, <<".", "m", "4", "a">>, <<".", "f", "l", "a", "c">>,
   <<".", "w", "a", "v">>, <<".", "o", "g", "g">>}
IsAudio(name) == \E ext \in AudioExtensions : EndsWith(ToLowerCase(name), ext)

\* --------------------------------------------- the tracks directory, read
\* TRACKS_DIR and path.join
TracksDirName == <<"t">>
PathJoin(parts) == Join(parts, <<"/">>)

\* the files findAudioFiles pushes for a subdirectory
SubFiles(entry) ==
  LET found == SelectSeq(entry.sub, IsAudio) IN
  [k \in DOMAIN found |->
     [path |-> PathJoin(<<TracksDirName, entry.name, found[k]>>),
      folder |-> entry.name, filename |-> found[k]]]

\* the body of the try of findAudioFiles from entry i on: the list built so
\* far and whether a readdir has thrown
RECURSIVE ScanFrom(_, _, _)
ScanFrom(entries, i, files) ==
  IF i > Len(entries) THEN [files |-> files, error |-> FALSE]
  ELSE LET entry == entries[i] IN
       IF entry.isDirectory
       THEN IF ~entry.readable THEN [files |-> files, error |-> TRUE]
            ELSE ScanFrom(entries, i + 1, files \o SubFiles(entry))
       ELSE IF IsAudio(entry.name)
       THEN ScanFrom(entries, i + 1,
                     Append(files, [path |-> PathJoin(<<TracksDirName, entry.name>>),
                                    folder |-> <<>>, filename |-> entry.name]))
       ELSE ScanFrom(entries, i + 1, files)

ReadTracksDir(dir) ==
  IF ~dir.readable THEN [files |-> <<>>, error |-> TRUE]
  ELSE ScanFrom(dir.entries, 1, <<>>)

\* variant: the error of readdir leaves the function
FindAudioFilesIn_NoCatch(dir) ==
  LET body == ReadTracksDir(dir) IN
  IF body.error THEN [files |-> <<>>, threw |-> TRUE]
  ELSE [files |-> body.files, threw |-> FALSE]

\* findAudioFiles on a directory given entry by entry: the catch logs the
\* error and the list built so far is returned
FindAudioFilesIn(dir) ==
  LET body == ReadTracksDir(dir) IN [files |-> body.files, threw |-> FALSE]

\* f.path + ':' + f.filename
FileInfo(f) == f.path \o <<":">> \o f.filename

\* getTracksFolderHash on a directory given entry by entry
GetTracksFolderHashIn(dir) ==
  LET found == FindAudioFilesIn(dir) IN
  IF found.threw THEN <<"Date.now">>
  ELSE <<"md5", Join(SortStrings([k \in DOMAIN found.files |-> FileInfo(found.files[k])]),
                     <<"|">>)>>

\* the directories the helper calls are made on: up to MaxEntries entries of
\* different names, in any order
FileEntry(name, size) ==
  [name |-> name, isDirectory |-> FALSE, readable |-> TRUE, sub |-> <<>>, size |-> size]
DirEntry(name, readable, sub) ==
  [name |-> name, isDirectory |-> TRUE, readable |-> readable, sub |-> sub, size |-> 0]
XMp3 == <<"x", ".", "m", "p", "3">>
ZOgg == <<"z", ".", "O", "G", "G">>
NTxt == <<"n", ".", "t", "x", "t">>
Entries ==
  {FileEntry(XMp3, 1), FileEntry(XMp3, 2), FileEntry(NTxt, 1)}
  \cup {DirEntry(<<"d">>, rd, sub) : rd \in BOOLEAN, sub \in {<<XMp3>>, <<ZOgg, XMp3>>}}
Dirs ==
  {[readable |-> rd, entries |-> es] :
     rd \in BOOLEAN,
     es \in {e \in UNION {[1..n -> Entries] : n \in 0..MaxEntries} :
              \A j, k \in DOMAIN e : j # k => e[j].name # e[k].name}}

\* ------------------------------------------------ tag values, as JS has them
\* A parsed tag bag is a JS value: undefined, null, a string, an array or an
\* object.  A field name and a tag path are sequences of characters.
Undefined == [t |-> "undefined"]
Null == [t |-> "null"]
Str(s) == [t |-> "string", v |-> s]
Arr(items) == [t |-> "array", items |-> items]
Obj(fields) == [t |-> "object", fields |-> fields]

\* ToBoolean: undefined, null and '' are falsy
Truthy(v) == /\ v.t \notin {"undefined", "null"}
             /\ ~(v.t = "string" /\ v.v = "")
\* value && typeof value === 'object'
IsObject(v) == v.t \in {"object", "array"}
\* value[0]
Index0(v) == IF v.items = <<>> THEN Undefined ELSE v.items[1]
\* value[part]
Prop(v, part) == IF part \in DOMAIN v.fields THEN v.fields[part] ELSE Undefined

\* str.split(sep) for a separator of one character
RECURSIVE Split(_, _)
Split(str, sep) ==
  IF \A k \in DOMAIN str : str[k] # sep THEN <<str>>
  ELSE LET c == CHOOSE k \in DOMAIN str : str[k] = sep /\ \A j \in 1..(k - 1) : str[j] # sep
       IN <<SubSeq(str, 1, c - 1)>> \o Split(SubSeq(str, c + 1, Len(str)), sep)

\* the loop of getTagValue over the parts: an array takes the place of the
\* part it meets, value = value[0], and the part is not looked up in it
RECURSIVE WalkParts(_, _)
WalkParts(value, parts) ==
  IF parts = <<>> THEN [returned |-> FALSE, value |-> value]
  ELSE IF IsObject(value)
  THEN WalkParts(IF value.t = "array" THEN Index0(value) ELSE Prop(value, Head(parts)),
                 Tail(parts))
  ELSE [returned |-> TRUE, value |-> Null]

\* value || null
OrNull(v) == IF Truthy(v) THEN v ELSE Null

\* getTagValue(metadata, tagPath)
GetTagValue(metadata, tagPath) ==
  LET w == WalkParts(metadata, Split(tagPath, ".")) IN
  IF w.returned THEN w.value
  ELSE OrNull(IF w.value.t = "array" THEN Index0(w.value) ELSE w.value)

\* the tag bags and paths getTagValue is called with: field a holds a scalar,
\* an object with field b, or a list of such
KeyA == <<"a">>
KeyB == <<"b">>
Scalars == {Null, Str(""), Str("x")}
Nested == Scalars \cup {Obj(KeyB :> l) : l \in Scalars \cup {Arr(<<Str("y"), Str("z")>>)}}
TagBags ==
  {Obj(<<>>)}
  \cup {Obj(KeyA :> c) :
          c \in Nested \cup {Arr(<<>>)} \cup {Arr(<<n>>) : n \in Nested}
                \cup {Arr(<<n, Str("w")>>) : n \in Nested}}
TagPaths == {KeyA, KeyA \o <<".">> \o KeyB, KeyB}

\* ----------------------------------------------- generateTrackDescription
\* a || b
Or(a, b) == IF Truthy(a) THEN a ELSE b
Dash == Str("-")

\* safeDisplay
SafeDisplay(value) == IF value \in {Null, Undefined, Str("")} THEN Dash ELSE value

\* the names of the fields of a parsed tag bag, and the paths read from it
Common == <<"c", "o", "m", "m", "o", "n">>
Format == <<"f", "o", "r", "m", "a", "t">>
Native == <<"n", "a", "t", "i", "v", "e">>
Id3v24 == <<"I", "D", "3", "v", "2", ".", "4">>
Title == <<"t", "i", "t", "l", "e">>
Artist == <<"a", "r", "t", "i", "s", "t">>
Album == <<"a", "l", "b", "u", "m">>
Genre == <<"g", "e", "n", "r", "e">>
OriginalArtist == <<"o", "r", "i", "g", "i", "n", "a", "l", "a", "r", "t", "i", "s", "t">>
Date == <<"d", "a", "t", "e">>
Timestamp == <<"t", "i", "m", "e", "s", "t", "a", "m", "p">>
Dotted(a, b) == a \o <<".">> \o b

\* a frame of metadata.native['ID3v2.4']: its id is the frame name and, for a
\* TXXX frame, ':' and the description
Tag(frame, desc, value) ==
  [id |-> [frame |-> frame, desc |-> desc], value |-> Str(value)]
\* t.id.startsWith('TXXX:') and tag.id.substring(5)
IsTxxx(tag) == tag.id.frame = "TXXX"
\* desc.toLowerCase() on the descriptions that occur
DescLower(desc) ==
  CASE desc \in {"Label", "label", "LABEL"} -> "label"
    [] desc \in {"Dj", "DJ", "dj"} -> "dj"
    [] desc \in {"Credits", "credits"} -> "credits"
    [] desc \in {"Release Link", "release link"} -> "release link"
    [] desc \in {"Release By", "release by"} -> "release by"
    [] desc = "Orig Aut" -> "orig aut"
    [] desc = "Original Artists" -> "original artists"
    [] OTHER -> desc

\* metadata.native && metadata.native['ID3v2.4'], or []
NativeTags(metadata) ==
  IF Native \in DOMAIN metadata.fields
     /\ Id3v24 \in DOMAIN metadata.fields[Native].fields
  THEN metadata.fields[Native].fields[Id3v24].items
  ELSE <<>>

\* t.id === 'TXXX:Orig Aut' || t.id === 'TXXX:Original Artists'
IsOrigAut(tag) == IsTxxx(tag) /\ tag.id.desc \in {"Orig Aut", "Original Artists"}
IsTpe2(tag) == tag.id.frame = "TPE2"

\* nativeTags.find(pred) and .value, given the frames that satisfy pred: the
\* value of the first of them, or undefined
FindValue(matching) == IF matching = <<>> THEN Undefined ELSE matching[1].value

\* originalArtists
OriginalArtists(metadata, nativeTags) ==
  LET fromTxxx == Or(FindValue(SelectSeq(nativeTags, IsOrigAut)), Dash) IN
  IF fromTxxx = Dash
  THEN Or(GetTagValue(metadata, Dotted(Common, OriginalArtist)),
          Or(FindValue(SelectSeq(nativeTags, IsTpe2)), Dash))
  ELSE fromTxxx

\* one call of the function given to forEach over the TXXX frames
TxxxEach(acc, tag) ==
  LET desc == tag.id.desc
      value == Or(tag.value, Str(""))
      descLower == DescLower(desc)
  IN [label |-> IF descLower = "label" \/ desc = "Label" THEN value ELSE acc.label,
      dj |-> IF descLower = "dj" \/ desc = "Dj" THEN value ELSE acc.dj,
      credits |-> IF descLower = "credits" \/ desc = "Credits" THEN value
                  ELSE acc.credits,
      customReleaseLink |->
        IF descLower = "release link" \/ desc = "Release Link" THEN value
        ELSE acc.customReleaseLink,
      releaseBy |-> IF descLower = "release by" \/ desc = "Release By" THEN value
                    ELSE acc.releaseBy]

RECURSIVE TxxxForEach(_, _)
TxxxForEach(tags, acc) ==
  IF tags = <<>> THEN acc ELSE TxxxForEach(Tail(tags), TxxxEach(acc, Head(tags)))

\* variant: the block is appended whatever credits is
HasCredits_Always(credits) == TRUE

\* credits && credits !== '-' && credits !== ''
HasCredits(credits) == Truthy(credits) /\ credits # Dash /\ credits # Str("")

\* a template is a sequence of texts and {KEY} placeholders
Text(s) == [text |-> s]
Var(key) == [key |-> key]
\* replaceTemplateVariables, for values that hold no placeholder themselves
ReplaceTemplateVariables(template, variables) ==
  [k \in DOMAIN template |->
     IF "key" \in DOMAIN template[k] /\ template[k].key \in DOMAIN variables
     THEN Text(variables[template[k].key].v)
     ELSE template[k]]

\* config.descriptionTemplate.template and .creditsTemplate
DescriptionTemplate ==
  <<Var("RELEASE_BY"), Var("RELEASE_LINK"), Var("TITLE"), Var("AUTHOR"), Var("ALBUM"),
    Var("GENRE"), Var("ORIGINAL_ARTISTS"), Var("DATE"), Var("DJ"), Var("LABEL"),
    Var("SOCIAL_LINKS")>>
CreditsTemplate == <<Text("Credits"), Var("CREDITS")>>
\* config.social.links joined, or '-'
SocialLinksHtml == Dash

\* generateTrackDescription: the values it resolves and the text it returns
GenerateTrackDescription(metadata, trackTitle, trackAuthor, releaseLink, enabled) ==
  LET title == Or(GetTagValue(metadata, Dotted(Common, Title)), Or(trackTitle, Dash))
      artist == Or(GetTagValue(metadata, Dotted(Common, Artist)), Or(trackAuthor, Dash))
      album == Or(GetTagValue(metadata, Dotted(Common, Album)), Dash)
      genre == Or(GetTagValue(metadata, Dotted(Common, Genre)), Dash)
      nativeTags == NativeTags(metadata)
      originalArtists == OriginalArtists(metadata, nativeTags)
      date == Or(GetTagValue(metadata, Dotted(Common, Date)),
                 Or(GetTagValue(metadata, Dotted(Format, Timestamp)), Dash))
      txxx == TxxxForEach(SelectSeq(nativeTags, IsTxxx),
                          [label |-> Dash, dj |-> Dash, credits |-> Dash,
                           releaseBy |-> Dash,
                           customReleaseLink |-> Or(releaseLink, Dash)])
      releaseUrl == Or(txxx.customReleaseLink, Or(releaseLink, Dash))
      variables == [RELEASE_BY |-> SafeDisplay(txxx.releaseBy),
                    RELEASE_LINK |-> releaseUrl,
                    TITLE |-> SafeDisplay(title),
                    AUTHOR |-> SafeDisplay(artist),
                    ALBUM |-> SafeDisplay(album),
                    GENRE |-> SafeDisplay(genre),
                    ORIGINAL_ARTISTS |-> SafeDisplay(originalArtists),
                    DATE |-> SafeDisplay(date),
                    DJ |-> SafeDisplay(txxx.dj),
                    LABEL |-> SafeDisplay(txxx.label),
                    SOCIAL_LINKS |-> SocialLinksHtml]
      creditsVariables == [k \in DOMAIN variables \cup {"CREDITS"} |->
                             IF k = "CREDITS" THEN txxx.credits ELSE variables[k]]
      builtIn == <<Text("Description"), Text(variables.RELEASE_BY.v),
                   Text("Stream"), Text(releaseUrl.v),
                   Text("About"), Text(variables.TITLE.v), Text(variables.AUTHOR.v),
                   Text(variables.ALBUM.v), Text(variables.GENRE.v),
                   Text(variables.ORIGINAL_ARTISTS.v), Text(variables.DATE.v),
                   Text(variables.DJ.v), Text(variables.LABEL.v),
                   Text("Social"), Text(SocialLinksHtml.v)>>
      description ==
        IF enabled
        THEN ReplaceTemplateVariables(DescriptionTemplate, variables)
             \o (IF HasCredits(txxx.credits)
                 THEN ReplaceTemplateVariables(CreditsTemplate, creditsVariables)
                 ELSE <<>>)
        ELSE builtIn \o (IF HasCredits(txxx.credits)
                         THEN <<Text("Credits"), Text(txxx.credits.v)>>
                         ELSE <<>>)
  IN [fields |-> variables, credits |-> txxx.credits, description |-> description]

\* the tag bags generateTrackDescription is called with
Fields(pairs) ==
  [k \in {pr[1] : pr \in pairs} |-> (CHOOSE pr \in pairs : pr[1] = k)[2]]
Frames ==
  {Tag("TXXX", "Label", "L"), Tag("TXXX", "label", ""),
   Tag("TXXX", "Credits", "c"), Tag("TXXX", "credits", ""), Tag("TXXX", "Credits", "-"),
   Tag("TXXX", "Release Link", "u"), Tag("TXXX", "release link", ""),
   Tag("TXXX", "Orig Aut", "o"), Tag("TXXX", "Orig Aut", ""),
   Tag("TXXX", "Original Artists", "O"), Tag("TPE2", "", "p"),
   Tag("TXXX", "DJ", "d"), Tag("TXXX", "Release By", "r")}
FrameLists == UNION {[1..n -> Frames] : n \in 0..MaxFrames}
CommonTags ==
  {Obj(Fields(t \cup o \cup g)) :
     t \in {{}, {<<Title, Str("t")>>, <<Artist, Str("a")>>, <<Album, Str("l")>>}},
     o \in {{}, {<<OriginalArtist, Str("s")>>, <<Date, Str("y")>>}},
     g \in {{}, {<<Genre, Arr(<<Str("g"), Str("h")>>)>>}}}
TrackTags ==
  {Obj(Fields({<<Common, c>>, <<Format, Obj(Fields({<<Timestamp, Str("m")>>}))>>,
               <<Native, Obj(Fields({<<Id3v24, Arr(frames)>>}))>>})) :
     c \in CommonTags, frames \in FrameLists}
  \cup {Obj(Fields({<<Common, c>>})) : c \in CommonTags}

\* -------------------------------------------------------------------- Init
InitFile == [a |-> File(1, 0, "p1"), b |-> File(2, 0, NoPicture)]

Init ==
  /\ clock = 1
  /\ library \in {lib \in [Paths -> {Absent} \cup Range(InitFile)] :
                    \A p \in Paths : lib[p] \in {Absent, InitFile[p]}}
  /\ coverStore = {}
  /\ rssCache = InitCache
  /\ fileGuidCache = <<>>
  /\ req = [r \in Reqs |-> IdleReq]
  /\ issued = <<>>
  /\ started = 0
  /\ fsOps = 0
  /\ calc = NoCalc

\* ------------------------------------------------- the tracks directory
Tick ==
  /\ clock < MaxClock
  /\ clock' = clock + 1
  /\ UNCHANGED <<library, coverStore, rssCache, fileGuidCache, req, issued,
                 started, fsOps, calc>>

\* a file is created, replaced or touched
WriteFile(p, c) ==
  /\ fsOps < MaxFsOps
  /\ fsOps' = fsOps + 1
  /\ library' = [library EXCEPT ![p] = IF c[3] THEN File(c[1], clock, c[2])
                                       ELSE Corrupt(File(c[1], clock, c[2]))]
  /\ UNCHANGED <<clock, coverStore, rssCache, fileGuidCache, req, issued, started, calc>>

RemoveFile(p) ==
  /\ fsOps < MaxFsOps
  /\ fsOps' = fsOps + 1
  /\ library[p].present
  /\ library' = [library EXCEPT ![p] = Absent]
  /\ UNCHANGED <<clock, coverStore, rssCache, fileGuidCache, req, issued, started, calc>>

\* the process stops once its requests are answered and starts again:
\* memory is lost, the disk is kept
Restart ==
  /\ \A r \in Reqs : req[r].pc = "idle"
  /\ rssCache' = InitCache
  /\ fileGuidCache' = <<>>
  /\ UNCHANGED <<clock, library, coverStore, req, issued, started, fsOps, calc>>

\* ------------------------------------------------------ handler entry
\* app.get('/rss.xml'): baseUrl, now, then await getTracksFolderHash()
RssStart(r) ==
  /\ req[r].pc = "idle"
  /\ started < MaxRequests
  /\ started' = started + 1
  /\ req' = [req EXCEPT ![r] = [IdleReq EXCEPT !.kind = "rss", !.pc = "hash",
                                  !.host = GetBaseUrl(HostOf[r]), !.now = clock]]
  /\ UNCHANGED <<clock, library, coverStore, rssCache, fileGuidCache, issued, fsOps,
                 calc>>

\* app.get('/refresh-rss'): baseUrl, then await getTracksFolderHash()
RefreshStart(r) ==
  /\ req[r].pc = "idle"
  /\ started < MaxRequests
  /\ started' = started + 1
  /\ req' = [req EXCEPT ![r] = [IdleReq EXCEPT !.kind = "refresh", !.pc = "hash",
                                  !.host = GetBaseUrl(HostOf[r])]]
  /\ UNCHANGED <<clock, library, coverStore, rssCache, fileGuidCache, issued, fsOps,
                 calc>>

\* /rss.xml after getTracksFolderHash resolves: shouldRefreshCache, then either
\* the call of generateRssData (suspends in findAudioFiles) or the response
RssHash(r) ==
  /\ req[r].kind = "rss"
  /\ req[r].pc = "hash"
  /\ LET currentFolderHash == GetTracksFolderHash(FindAudioFiles(library))
         l == req[r]
         lp == [l EXCEPT !.prev = EntryState(rssCache, l.now, currentFolderHash)]
     IN IF ShouldRefreshCache(rssCache, l.now, currentFolderHash)
        THEN req' = [req EXCEPT ![r] = [lp EXCEPT !.pc = "scan",
                                                  !.hash = currentFolderHash]]
        ELSE req' = [req EXCEPT ![r] = Done(lp, RssResponse(rssCache, FALSE))]
  /\ UNCHANGED <<clock, library, coverStore, rssCache, fileGuidCache, issued, started, fsOps,
                 calc>>

\* /refresh-rss after getTracksFolderHash resolves: the entry is cleared and
\* generateRssData is called
RefreshHash(r) ==
  /\ req[r].kind = "refresh"
  /\ req[r].pc = "hash"
  /\ LET currentFolderHash == GetTracksFolderHash(FindAudioFiles(library)) IN
     req' = [req EXCEPT ![r] = [@ EXCEPT !.pc = "scan",
                                         !.hash = currentFolderHash,
                                         !.prev = EntryState(rssCache, clock,
                                                             currentFolderHash)]]
  /\ rssCache' = ClearedEntry
  /\ UNCHANGED <<clock, library, coverStore, fileGuidCache, issued, started, fsOps, calc>>

\* --------------------------------------------------- generateRssData
\* generateRssData returned rssData to its handler
Finish(r, l) ==
  LET rssData == RssData(l.host, l.chan, l.items,
                         [files |-> l.files, no |-> l.scanNo]) IN
  IF l.kind = "rss"
  THEN /\ rssCache' = RssEntry(rssData, l.now, l.hash)
       /\ req' = [req EXCEPT ![r] = Done(l, RssResponse(rssCache', TRUE))]
  ELSE /\ rssCache' = RefreshEntry(rssData, clock, l.hash)
       /\ req' = [req EXCEPT ![r] = Done(l, RefreshResponse(rssData, clock))]

\* the end of one iteration of the loop over audioFiles
NextFile(r, l) ==
  IF l.i < Len(l.files)
  THEN /\ req' = [req EXCEPT ![r] = [l EXCEPT !.pc = "fileStat", !.i = l.i + 1,
                                              !.cur = NoCur]]
       /\ UNCHANGED rssCache
  ELSE Finish(r, l)

\* the rest of the loop body once coverUrl is known: guid, item, items.push
PushItem(r, l, coverUrl, outcome) ==
  LET filePath == l.files[l.i]
      g == GenerateStableGuid(filePath, l.cur, fileGuidCache)
      item == MakeItem(filePath, l.cur, g, FallbackCover(coverUrl, l.chan), outcome)
      fileKey == FileKey(filePath, l.cur)
  IN /\ fileGuidCache' = g.cache
     /\ issued' = IF fileKey \in DOMAIN issued THEN issued
                  ELSE (fileKey :> g.guid) @@ issued
     /\ NextFile(r, [l EXCEPT !.items = Append(l.items, item)])

\* generateRssData throws; the handler's catch answers 500
Fail(r, l) ==
  /\ req' = [req EXCEPT ![r] = Done(l, ErrorResponse)]
  /\ UNCHANGED rssCache

\* variant: the rejection leaves the loop and generateRssData
SkipFile_Rethrow(r, l) == Fail(r, l)

\* catch (error) { ...; continue; } of the loop body
SkipFile(r, l) == NextFile(r, l)

\* the scans are numbered in the order they happen: a scan comes after the
\* scans of the builds in flight and after the scan of the entry's document
NextScanNo ==
  LET known == {rssCache.data.scan.no} \cup {req[q].scanNo : q \in Reqs}
  IN 1 + CHOOSE m \in known : \A n \in known : n <= m

\* findAudioFiles resolves inside generateRssData
BuildScan(r) ==
  /\ req[r].pc = "scan"
  /\ LET l == req[r]
         audioFiles == FindAudioFiles(library)
     IN IF Len(audioFiles) = 0
        THEN Fail(r, l)
        ELSE /\ req' = [req EXCEPT ![r] =
                          [l EXCEPT !.files = audioFiles, !.scanNo = NextScanNo,
                                    !.i = IF ChannelImage # "" THEN 0 ELSE 1,
                                    !.pc = IF ChannelImage # "" THEN "chanAccess"
                                           ELSE "fileStat"]]
             /\ UNCHANGED rssCache
  /\ UNCHANGED <<clock, library, coverStore, fileGuidCache, issued, started, fsOps, calc>>

\* processChannelCover: fs.access(coverPath) settles
ChanAccess(r) ==
  /\ req[r].pc = "chanAccess"
  /\ LET l == req[r] IN
     IF CoverCached(coverStore, ChannelCoverFilename)
     THEN req' = [req EXCEPT ![r] = [l EXCEPT !.chan = Url(l.host, ChannelCoverFilename),
                                              !.pc = "fileStat", !.i = 1]]
     ELSE req' = [req EXCEPT ![r] = [l EXCEPT !.pc = "chanDerive"]]
  /\ UNCHANGED <<clock, library, coverStore, rssCache, fileGuidCache, issued, started, fsOps,
                 calc>>

\* downloadImage: what the connection does, and what becomes of the promise.
\* resolve: status 200 and the body ends.  reject: a status other than 200, or
\* an 'error' event of the request.  A connection that closes after the
\* response headers arrived and before the body ended raises 'aborted' and
\* 'close' on the response, for which no listener is registered: neither
\* resolve nor reject is called.
DownloadEvents == {"end", "status", "requestError", "closedAfterHeaders"}
DownloadImage(event) ==
  CASE event = "end" -> "resolved"
    [] event \in {"status", "requestError"} -> "rejected"
    [] OTHER -> "pending"

\* processChannelCover: downloadImage, cropToSquare and toFile settle; the
\* first one that rejects ends in the catch
ChanDerive(r) ==
  /\ req[r].pc = "chanDerive"
  /\ \E event \in DownloadEvents, ok \in BOOLEAN :
       LET l == req[r]
           f == ChannelCoverFilename
           promise == DownloadImage(event)
       IN IF promise = "pending"
          THEN /\ ok
               /\ req' = [req EXCEPT ![r] = [l EXCEPT !.pc = "chanHung"]]
               /\ UNCHANGED coverStore
          ELSE IF promise = "resolved" /\ ok
          THEN /\ coverStore' = coverStore \cup {f}
               /\ req' = [req EXCEPT ![r] = [l EXCEPT !.chan = Url(l.host, f),
                                                      !.pc = "fileStat", !.i = 1]]
          ELSE /\ req' = [req EXCEPT ![r] = [l EXCEPT !.chan = NoUrl,
                                                      !.pc = "fileStat", !.i = 1]]
               /\ UNCHANGED coverStore
  /\ UNCHANGED <<clock, library, rssCache, fileGuidCache, issued, started, fsOps, calc>>

\* the loop body up to processTrackCover: fs.stat and parseFile settle; if
\* one rejects, the catch of the loop body goes on to the next file
FileStat(r) ==
  /\ req[r].pc = "fileStat"
  /\ LET l == req[r]
         f == library[l.files[l.i]]
         stat == [size |-> f.size, mtime |-> f.mtime, pic |-> f.pic]
         lc == [l EXCEPT !.cur = stat]
     IN IF ~f.present \/ ~f.parses
        THEN /\ SkipFile(r, l)
             /\ UNCHANGED <<fileGuidCache, issued>>
        ELSE IF GenerateSquareCovers /\ f.pic # NoPicture
        THEN /\ req' = [req EXCEPT ![r] = [lc EXCEPT !.pc = "trackAccess"]]
             /\ UNCHANGED <<rssCache, fileGuidCache, issued>>
        ELSE PushItem(r, lc, NoUrl, "none")
  /\ UNCHANGED <<clock, library, coverStore, started, fsOps, calc>>

\* processTrackCover: fs.access(coverPath) settles
TrackAccess(r) ==
  /\ req[r].pc = "trackAccess"
  /\ LET l == req[r]
         f == TrackCoverFilename(l.files[l.i], l.cur)
     IN IF CoverCached(coverStore, f)
        THEN PushItem(r, l, Url(l.host, f), "cached")
        ELSE /\ req' = [req EXCEPT ![r] = [l EXCEPT !.pc = "trackDerive"]]
             /\ UNCHANGED <<rssCache, fileGuidCache, issued>>
  /\ UNCHANGED <<clock, library, coverStore, started, fsOps, calc>>

\* processTrackCover: cropToSquare and toFile settle; if one rejects the
\* catch returns null
TrackDerive(r) ==
  /\ req[r].pc = "trackDerive"
  /\ \E ok \in BOOLEAN :
       LET l == req[r]
           f == TrackCoverFilename(l.files[l.i], l.cur)
       IN IF ok
          THEN /\ coverStore' = coverStore \cup {f}
               /\ PushItem(r, l, Url(l.host, f), "derived")
          ELSE /\ PushItem(r, l, NoUrl, "failed")
               /\ UNCHANGED coverStore
  /\ UNCHANGED <<clock, library, started, fsOps, calc>>

Next ==
  \/ Tick
  \/ \E p \in Mutable, c \in Contents : WriteFile(p, c)
  \/ \E p \in Mutable : RemoveFile(p)
  \/ Restart
  \/ \E r \in Reqs : RssStart(r)
  \/ \E r \in Reqs : RefreshStart(r)
  \/ \E r \in Reqs : RssHash(r)
  \/ \E r \in Reqs : RefreshHash(r)
  \/ \E r \in Reqs : BuildScan(r)
  \/ \E r \in Reqs : ChanAccess(r)
  \/ \E r \in Reqs : ChanDerive(r)
  \/ \E r \in Reqs : FileStat(r)
  \/ \E r \in Reqs : TrackAccess(r)
  \/ \E r \in Reqs : TrackDerive(r)

Spec == Init /\ [][Next]_vars

\* Every await of a handler is on a call that delivers its result or its
\* error, and the event loop then runs the continuation: a handler that can
\* take a step takes it.
HandlerStep(r) ==
  \/ RssHash(r) \/ RefreshHash(r) \/ BuildScan(r) \/ ChanAccess(r)
  \/ ChanDerive(r) \/ FileStat(r) \/ TrackAccess(r) \/ TrackDerive(r)

LiveSpec == Init /\ [][Next]_vars /\ \A r \in Reqs : WF_vars(HandlerStep(r))

\* ------------------------------------------ a directory that keeps changing
\* The clock stands still and the process is not restarted; files are
\* written and removed any number of times while requests are handled.
Rewrite(p, c) ==
  /\ library' = [library EXCEPT ![p] = IF c[3] THEN File(c[1], clock, c[2])
                                       ELSE Corrupt(File(c[1], clock, c[2]))]
  /\ library' # library
  /\ UNCHANGED <<clock, coverStore, rssCache, fileGuidCache, req, issued, started,
                 fsOps, calc>>

Unlink(p) ==
  /\ library[p].present
  /\ library' = [library EXCEPT ![p] = Absent]
  /\ UNCHANGED <<clock, coverStore, rssCache, fileGuidCache, req, issued, started,
                 fsOps, calc>>

ChurnNext ==
  \/ \E p \in Mutable, c \in Contents : Rewrite(p, c)
  \/ \E p \in Mutable : Unlink(p)
  \/ \E r \in Reqs : RssStart(r)
  \/ \E r \in Reqs : RefreshStart(r)
  \/ \E r \in Reqs : RssHash(r)
  \/ \E r \in Reqs : RefreshHash(r)
  \/ \E r \in Reqs : BuildScan(r)
  \/ \E r \in Reqs : ChanAccess(r)
  \/ \E r \in Reqs : ChanDerive(r)
  \/ \E r \in Reqs : FileStat(r)
  \/ \E r \in Reqs : TrackAccess(r)
  \/ \E r \in Reqs : TrackDerive(r)

ChurnSpec == Init /\ [][ChurnNext]_vars

\* ------------------------------------------------ helper functions, called
\* The server is at rest; one helper function is called on one argument list.
Called(fn, args, result) == [fn |-> fn, args |-> args, result |-> result]

CallFindAudioFiles ==
  /\ calc = NoCalc
  /\ \E dir \in Dirs : calc' = Called("findAudioFiles", <<dir>>, FindAudioFilesIn(dir))
  /\ UNCHANGED serverVars

CallGetTracksFolderHash ==
  /\ calc = NoCalc
  /\ \E dir \in Dirs :
       calc' = Called("getTracksFolderHash", <<dir>>, GetTracksFolderHashIn(dir))
  /\ UNCHANGED serverVars

\* the lists of items the loop of generateRssData can leave: files of
\* different paths, in scan order, each with its modification time
ItemLists ==
  {l \in UNION {[1..n -> [path : {"a", "b", "c"}, pubDate : 0..MaxStamp]] :
                 n \in 0..MaxItems} :
     \A j, k \in DOMAIN l : j # k => l[j].path # l[k].path}

\* the sort and the slice at the end of generateRssData
CallSortLimit ==
  /\ calc = NoCalc
  /\ \E items \in ItemLists :
       calc' = Called("limitedItems", <<items>>, LimitItems(SortItems(items)))
  /\ UNCHANGED serverVars

CallFormatDuration ==
  /\ calc = NoCalc
  /\ \E seconds \in 0..MaxSeconds :
       calc' = Called("formatDuration", <<seconds>>, FormatDuration(seconds))
  /\ UNCHANGED serverVars

\* the sides of the images and the target sizes cropToSquare is called with
Dims == (1..MaxDim) \cup {2000, 4000}
Targets == (1..MaxTarget) \cup {1000}

CallCropToSquare ==
  /\ calc = NoCalc
  /\ \E width \in Dims, height \in Dims, size \in Targets, cropMode \in {"crop", "pad"} :
       calc' = Called("cropToSquare", <<width, height, size, cropMode>>,
                      CropToSquare(width, height, size, cropMode))
  /\ UNCHANGED serverVars

CallGetTagValue ==
  /\ calc = NoCalc
  /\ \E metadata \in TagBags, tagPath \in TagPaths :
       calc' = Called("getTagValue", <<metadata, tagPath>>, GetTagValue(metadata, tagPath))
  /\ UNCHANGED serverVars

CallGenerateTrackDescription ==
  /\ calc = NoCalc
  /\ \E metadata \in TrackTags, fallback \in {Str(""), Str("f")}, enabled \in BOOLEAN :
       calc' = Called("generateTrackDescription",
                      <<metadata, fallback, fallback, fallback, enabled>>,
                      GenerateTrackDescription(metadata, fallback, fallback, fallback,
                                               enabled))
  /\ UNCHANGED serverVars

HelperNext ==
  \/ CallFormatDuration
  \/ CallCropToSquare
  \/ CallSortLimit
  \/ CallFindAudioFiles
  \/ CallGetTracksFolderHash
  \/ CallGetTagValue
  \/ CallGenerateTrackDescription

HelperInit ==
  /\ Init
  /\ library = InitFile

HelperSpec == HelperInit /\ [][HelperNext]_vars

\* ================================================================ properties
\* request r takes a step of its handler
Steps(r) == req'[r] # req[r]

\* request r is between the call of generateRssData and its return
Rebuilding == {r \in Reqs : InBuild(r)}

\* the items request r has built: the list under construction, or, once the
\* handler has answered, the list of the document it stored
BuiltItems(r) ==
  IF req[r].pc = "idle" THEN Range(rssCache.data.items) ELSE Range(req[r].items)

\* every item that can be looked at: under construction, cached, or served
AllItems ==
  UNION ({Range(req[r].items) : r \in Reqs}
         \cup {Range(req[r].resp.doc.items) : r \in Reqs}
         \cup {Range(rssCache.data.items)})

\* the item of the file request r is working on has been pushed
Emitted(r, filePath) ==
  \/ \E it \in BuiltItems(r)' : it.path = filePath
  \/ req'[r].pc = "idle" /\ Len(rssCache'.data.items) = MaxTracksInRSS

\* ---------------------------------------------------------------------- C1
\* C1: in every reachable state at most one call of generateRssData is in
\* flight, whatever the interleaving of /rss.xml and /refresh-rss requests.
C1_AtMostOneRebuild == Cardinality(Rebuilding) <= 1

\* ---------------------------------------------------------------------- C2
\* C2: /rss.xml requests that have observed a stale entry and have not yet
\* answered are served by one rebuild: no two of them each run
\* generateRssData.
C2_StaleRequestsShareRebuild ==
  \A r1, r2 \in Reqs :
    (/\ req[r1].kind = "rss" /\ InBuild(r1)
     /\ req[r2].kind = "rss" /\ InBuild(r2)) => r1 = r2

\* ---------------------------------------------------------------------- C3
\* C3: when /rss.xml evaluates shouldRefreshCache on an entry that holds a
\* document, has the current library signature and is younger than the cache
\* duration, it answers with the cached document and changes nothing: the
\* entry, the covers directory and the identifier table stay as they are and
\* generateRssData is not called.
C3_FreshEntryServed ==
  [][\A r \in Reqs :
       (/\ req[r].kind = "rss" /\ req[r].pc = "hash" /\ Steps(r)
        /\ rssCache.data # NoDoc
        /\ rssCache.fileHash = GetTracksFolderHash(FindAudioFiles(library))
        /\ req[r].now - rssCache.lastUpdated < CacheDuration)
       => (/\ req'[r].pc = "idle"
           /\ req'[r].resp.status = "ok"
           /\ req'[r].resp.doc = rssCache.data
           /\ ~req'[r].resp.rebuilt
           /\ rssCache' = rssCache
           /\ coverStore' = coverStore
           /\ fileGuidCache' = fileGuidCache)]_vars

\* a /rss.xml request was answered from a fresh entry without a rebuild
C3_Witness ==
  \E r \in Reqs :
    /\ req[r].kind = "rss" /\ req[r].pc = "idle" /\ req[r].prev = "fresh"
    /\ req[r].resp.status = "ok" /\ ~req[r].resp.rebuilt
    /\ req[r].resp.doc = rssCache.data /\ Len(rssCache.data.items) > 0

\* ---------------------------------------------------------------------- C4
\* the entry as /rss.xml sees it when getTracksFolderHash has resolved
C4_Age(r) == req[r].now - rssCache.lastUpdated
C4_SameSignature == rssCache.fileHash = GetTracksFolderHash(FindAudioFiles(library))
C4_Decides(r) == req[r].kind = "rss" /\ req[r].pc = "hash" /\ Steps(r)
C4_ServesCached(r) ==
  /\ req'[r].pc = "idle" /\ req'[r].resp.status = "ok" /\ ~req'[r].resp.rebuilt
  /\ req'[r].resp.doc = rssCache.data /\ rssCache' = rssCache
C4_Rebuilds(r) == req'[r].pc = "scan"
\* a rebuild of /rss.xml that succeeds stores its document with the
\* request's time and signature
C4_SuccessReplaces ==
  \A r \in Reqs :
    (/\ req[r].kind = "rss" /\ InBuild(r)
     /\ req'[r].pc = "idle" /\ req'[r].resp.status = "ok")
    => (/\ rssCache'.data # NoDoc
        /\ rssCache'.data = req'[r].resp.doc
        /\ rssCache'.data.base = req[r].host
        /\ rssCache'.lastUpdated = req[r].now
        /\ rssCache'.fileHash = req[r].hash)

\* C4 as stated: /rss.xml serves the cached document only if an entry exists,
\* (now - builtAt) < ttl and the signature is unchanged; in every other case,
\* an age exactly equal to ttl included, it rebuilds, and a rebuild that
\* succeeds leaves the cache Warm.
C4_Original ==
  [][/\ \A r \in Reqs :
          C4_Decides(r) =>
            IF rssCache.data # NoDoc /\ C4_Age(r) < CacheDuration /\ C4_SameSignature
            THEN C4_ServesCached(r) ELSE C4_Rebuilds(r)
     /\ C4_SuccessReplaces]_vars

\* C4 as amended: /rss.xml serves the cached document if and only if an entry
\* exists, (now - builtAt) <= ttl and the signature is unchanged; otherwise
\* (no entry, signature changed, or age greater than ttl) it rebuilds, and a
\* rebuild that succeeds leaves the cache Warm.
C4_Amended ==
  [][/\ \A r \in Reqs :
          C4_Decides(r) =>
            IF rssCache.data # NoDoc /\ C4_Age(r) <= CacheDuration /\ C4_SameSignature
            THEN C4_ServesCached(r) ELSE C4_Rebuilds(r)
     /\ C4_SuccessReplaces]_vars

\* a /rss.xml request was answered from an entry exactly as old as the cache
\* duration, and the entry is still there
C4_Witness ==
  \E r \in Reqs :
    /\ req[r].kind = "rss" /\ req[r].pc = "idle" /\ req[r].prev = "due"
    /\ req[r].resp.status = "ok" /\ ~req[r].resp.rebuilt
    /\ req[r].resp.doc = rssCache.data

\* ---------------------------------------------------------------------- C5
\* C5: a rebuild that fails while the entry held a document when the rebuild
\* was started leaves an entry that still holds a document, a build time and
\* a signature, for /rss.xml and for /refresh-rss.
C5_FailedRebuildKeepsEntry ==
  [][\A r \in Reqs :
       (/\ InBuild(r) /\ req[r].prev # "cold"
        /\ req'[r].pc = "idle" /\ req'[r].resp.status = "error")
       => (/\ rssCache'.data # NoDoc
           /\ rssCache'.lastUpdated # 0
           /\ rssCache'.fileHash # NoHash)]_vars

\* ---------------------------------------------------------------------- C6
\* C6: /refresh-rss calls generateRssData whatever the entry is; when the
\* rebuild succeeds the entry holds the new document, the time of the answer
\* and the request's signature, and the answer reports that document's item
\* count and that time; when it fails the answer is an error.
C6_ForcedRefresh ==
  [][\A r \in Reqs :
       req[r].kind = "refresh" =>
         /\ (req[r].pc = "hash" /\ Steps(r)) => req'[r].pc = "scan"
         /\ (InBuild(r) /\ req'[r].pc = "idle") =>
              \/ /\ req'[r].resp.status = "ok"
                 /\ req'[r].resp.rebuilt
                 /\ rssCache'.data # NoDoc
                 /\ rssCache'.data.base = req[r].host
                 /\ rssCache'.data.chan = req[r].chan
                 /\ rssCache'.lastUpdated = clock
                 /\ rssCache'.fileHash = req[r].hash
                 /\ req'[r].resp.itemsCount = Len(rssCache'.data.items)
                 /\ req'[r].resp.at = clock
              \/ /\ req'[r].resp.status = "error"
                 /\ req[r].pc = "scan"]_vars

\* a /refresh-rss request found a fresh entry, rebuilt all the same and
\* reported the items of the document the entry now holds
C6_Witness ==
  \E r \in Reqs :
    /\ req[r].kind = "refresh" /\ req[r].pc = "idle" /\ req[r].prev = "fresh"
    /\ req[r].resp.status = "ok"
    /\ req[r].resp.itemsCount = Len(rssCache.data.items)
    /\ req[r].resp.itemsCount > 0

\* ---------------------------------------------------------------------- C7
\* C7: every identifier handed out for a (path, size) pair is the one that
\* was handed out for that pair first, whether the memo table had the pair or
\* not, before and after a restart, and whatever the modification time of the
\* file; the memo table holds nothing else.
C7_StableGuid ==
  /\ \A it \in AllItems :
       /\ <<it.path, it.size>> \in DOMAIN issued
       /\ it.guid = issued[<<it.path, it.size>>]
  /\ \A k \in DOMAIN fileGuidCache :
       k \in DOMAIN issued /\ fileGuidCache[k] = issued[k]

\* two items of the same (path, size) with different modification times, the
\* first computed when the memo table did not have the pair, the second
\* answered from the memo table
C7_Witness ==
  \E x, y \in AllItems :
    /\ x.path = y.path /\ x.size = y.size /\ x.pubDate # y.pubDate
    /\ ~x.memoHit /\ y.memoHit /\ x.guid = y.guid

\* ---------------------------------------------------------------------- C8
\* C8: when processTrackCover or processChannelCover finds the cover file of
\* its key in the covers directory, it returns that file's URL: the directory
\* is not written, the download and the image pipeline are not started.
C8_StoredCoverReused ==
  [][\A r \in Reqs :
       /\ (/\ req[r].pc = "trackAccess" /\ Steps(r)
           /\ TrackCoverFilename(req[r].files[req[r].i], req[r].cur) \in coverStore)
          => (/\ coverStore' = coverStore
              /\ req'[r].pc # "trackDerive"
              /\ \/ \E it \in BuiltItems(r)' :
                      /\ it.path = req[r].files[req[r].i]
                      /\ it.coverOutcome = "cached"
                      /\ it.cover = Url(req[r].host,
                                        TrackCoverFilename(req[r].files[req[r].i],
                                                           req[r].cur))
                 \/ /\ req'[r].pc = "idle"
                    /\ Len(rssCache'.data.items) = MaxTracksInRSS)
       /\ (/\ req[r].pc = "chanAccess" /\ Steps(r)
           /\ ChannelCoverFilename \in coverStore)
          => (/\ coverStore' = coverStore
              /\ req'[r].pc = "fileStat"
              /\ req'[r].chan = Url(req[r].host, ChannelCoverFilename))]_vars

\* a rebuild answered with a document whose track cover came from the covers
\* directory and whose channel cover is there as well
C8_Witness ==
  \E r \in Reqs :
    /\ req[r].pc = "idle" /\ req[r].resp.status = "ok" /\ req[r].resp.rebuilt
    /\ req[r].resp.doc.chan = Url(HostOf[r], ChannelCoverFilename)
    /\ ChannelCoverFilename \in coverStore
    /\ \E it \in Range(req[r].resp.doc.items) :
         it.coverOutcome = "cached" /\ it.cover.file \in coverStore

\* ---------------------------------------------------------------------- C9
\* C9: two track covers come from the same stored asset exactly when their
\* picture bytes are equal (the target size is the same for all).
C9_KeyFromPictureBytes ==
  \A x, y \in AllItems :
    (x.coverOutcome \in {"cached", "derived"} /\ y.coverOutcome \in {"cached", "derived"})
    => (x.cover.file = y.cover.file <=> x.pic = y.pic)

\* --------------------------------------------------------------------- C10
\* C10: a download or image-processing failure does not abort the build: the
\* channel cover step goes on to the files, the track cover step pushes the
\* track's item, whose cover is the channel cover URL when one was derived
\* and absent otherwise, and generateRssData fails only at its scan.
C10_CoverFailureDegrades ==
  [][\A r \in Reqs :
       /\ (req[r].pc = "chanDerive" /\ Steps(r)) => req'[r].pc = "fileStat"
       /\ (req[r].pc = "trackDerive" /\ Steps(r))
          => (/\ req'[r].resp.status # "error"
              /\ Emitted(r, req[r].files[req[r].i])
              /\ \A it \in BuiltItems(r)' :
                   (it.path = req[r].files[req[r].i] /\ it.coverOutcome = "failed")
                   => it.cover = IF req[r].chan # NoUrl THEN req[r].chan ELSE NoUrl)
       /\ (InBuild(r) /\ req'[r].pc = "idle" /\ req'[r].resp.status = "error")
          => req[r].pc = "scan"]_vars

\* --------------------------------------------------------------------- C11
\* the number of items request r has built
C11_Count(r) ==
  IF req[r].pc = "idle" THEN Len(rssCache.data.items) ELSE Len(req[r].items)
\* the step of request r pushed exactly one item, for filePath
C11_PushedOne(r, filePath) ==
  /\ C11_Count(r)' = Len(req[r].items) + 1
  /\ \E it \in BuiltItems(r)' : it.path = filePath
  /\ req'[r].resp.status # "error"
\* the step of request r pushed nothing and went on to the next file, or to
\* the end of the build when the file was the last one
C11_Skipped(r, filePath) ==
  /\ C11_Count(r)' = Len(req[r].items)
  /\ ~\E it \in BuiltItems(r)' : it.path = filePath
  /\ req'[r].resp.status # "error"
  /\ IF req[r].i < Len(req[r].files)
     THEN req'[r].pc = "fileStat" /\ req'[r].i = req[r].i + 1
     ELSE req'[r].pc = "idle" /\ req'[r].resp.status = "ok"

C12_ZeroUsableIsError ==
  /\ rssCache.data # NoDoc => Len(rssCache.data.items) > 0
  /\ \A r \in Reqs :
       (req[r].resp.status = "ok" /\ req[r].resp.rebuilt)
       => IF req[r].kind = "rss" THEN Len(req[r].resp.doc.items) > 0
          ELSE req[r].resp.itemsCount > 0

\* --------------------------------------------------------------------- C13
\* C13: findAudioFiles returns a list and never throws; on a tracks
\* directory that cannot be read the list is empty, and getTracksFolderHash
\* is then the digest of the empty directory, not its Date.now fallback.
C13_ScanNeverRaises ==
  /\ calc.fn = "findAudioFiles"
     => /\ ~calc.result.threw
        /\ ~calc.args[1].readable => calc.result.files = <<>>
  /\ calc.fn = "getTracksFolderHash"
     => /\ calc.result[1] = "md5"
        /\ ~calc.args[1].readable
           => calc.result = GetTracksFolderHashIn([readable |-> TRUE, entries |-> <<>>])

\* the signature was taken of an unreadable directory that holds audio files
C13_Witness ==
  /\ calc.fn = "getTracksFolderHash"
  /\ ~calc.args[1].readable
  /\ \E k \in DOMAIN calc.args[1].entries : IsAudio(calc.args[1].entries[k].name)
  /\ calc.result = <<"md5", <<>>>>

\* --------------------------------------------------------------------- C18
\* the (path, name) pairs findAudioFiles finds in a directory
C18_Scanned(dir) ==
  {<<f.path, f.filename>> : f \in Range(FindAudioFilesIn(dir).files)}

\* C18: two directories have the same signature exactly when the same
\* (path, name) pairs are scanned in them: the order of enumeration and the
\* sizes of the files make no difference, one pair more or less does.
C18_SignatureOfSet ==
  calc.fn = "getTracksFolderHash"
  => \A other \in Dirs :
       (GetTracksFolderHashIn(other) = calc.result)
       <=> (C18_Scanned(other) = C18_Scanned(calc.args[1]))

\* the signature of a directory of two audio files, read in the order that
\* is not the sorted one
C18_Witness ==
  /\ calc.fn = "getTracksFolderHash"
  /\ LET found == FindAudioFilesIn(calc.args[1]).files IN
     /\ Len(found) = 2
     /\ StrLess(FileInfo(found[2]), FileInfo(found[1]))

\* --------------------------------------------------------------------- C14
\* item x comes before item y in the feed: it is newer, or as old and
\* scanned earlier
C14_Before(items, x, y) ==
  \/ x.pubDate > y.pubDate
  \/ /\ x.pubDate = y.pubDate
     /\ (CHOOSE k \in DOMAIN items : items[k] = x) < (CHOOSE k \in DOMAIN items : items[k] = y)

\* C14: the items of a document are min(n, maxTracksInRSS) of the n built
\* items, newest first and, among equally old ones, in scan order; every
\* item left out comes after every item kept in that order.
C14_SortedThenTruncated ==
  calc.fn = "limitedItems"
  => LET items == calc.args[1]
         out == calc.result
     IN /\ Len(out) = Min(Len(items), MaxTracksInRSS)
        /\ Range(out) \subseteq Range(items)
        /\ \A j, k \in DOMAIN out : j < k => C14_Before(items, out[j], out[k])
        /\ \A x \in Range(items) \ Range(out), y \in Range(out) :
             C14_Before(items, y, x)
        /\ items = <<[path |-> "a", pubDate |-> 1], [path |-> "b", pubDate |-> 0],
                     [path |-> "c", pubDate |-> 2]>>
           => out = <<[path |-> "c", pubDate |-> 2], [path |-> "a", pubDate |-> 1]>>

\* three items of which the two oldest are equally old: one of them is cut
C14_Witness ==
  /\ calc.fn = "limitedItems"
  /\ Len(calc.args[1]) = 3 /\ Len(calc.result) = 2
  /\ calc.args[1][1].pubDate = 0 /\ calc.args[1][2].pubDate = 2
  /\ calc.args[1][3].pubDate = 0
  /\ calc.result = <<calc.args[1][2], calc.args[1][1]>>

\* --------------------------------------------------------------------- C15
\* the fields of a string between its colons
RECURSIVE C15_Fields(_)
C15_Fields(str) ==
  IF \A k \in DOMAIN str : str[k] # ":" THEN <<str>>
  ELSE LET c == CHOOSE k \in DOMAIN str : str[k] = ":" /\ \A j \in 1..(k - 1) : str[j] # ":"
       IN <<SubSeq(str, 1, c - 1)>> \o C15_Fields(SubSeq(str, c + 1, Len(str)))
\* the number a string of decimal digits denotes
RECURSIVE C15_Value(_)
C15_Value(str) ==
  IF str = <<>> THEN 0
  ELSE 10 * C15_Value(SubSeq(str, 1, Len(str) - 1))
       + (CHOOSE d \in 0..9 : DigitChar(d) = str[Len(str)])
C15_IsNumber(str) ==
  /\ str # <<>>
  /\ \A k \in DOMAIN str : \E d \in 0..9 : DigitChar(d) = str[k]
\* a number written without padding
C15_Plain(str) == C15_IsNumber(str) /\ (Len(str) = 1 \/ str[1] # "0")
\* a number below 60 written with two digits
C15_TwoDigits(str) == C15_IsNumber(str) /\ Len(str) = 2 /\ C15_Value(str) < 60

\* C15: formatDuration(0) is "00:00"; below an hour the result is M:SS, from
\* an hour on H:MM:SS, and the fields add up to the seconds given; 125 gives
\* "2:05" and 3725 gives "1:02:05".
C15_FormatDuration ==
  calc.fn = "formatDuration"
  => LET seconds == calc.args[1]
         f == C15_Fields(calc.result)
     IN /\ seconds = 0 => calc.result = <<"0", "0", ":", "0", "0">>
        /\ (0 < seconds /\ seconds < 3600)
           => /\ Len(f) = 2
              /\ C15_Plain(f[1]) /\ C15_TwoDigits(f[2])
              /\ C15_Value(f[1]) * 60 + C15_Value(f[2]) = seconds
        /\ seconds >= 3600
           => /\ Len(f) = 3
              /\ C15_Plain(f[1]) /\ C15_TwoDigits(f[2]) /\ C15_TwoDigits(f[3])
              /\ C15_Value(f[1]) * 3600 + C15_Value(f[2]) * 60 + C15_Value(f[3]) = seconds
        /\ seconds = 125 => calc.result = <<"2", ":", "0", "5">>
        /\ seconds = 3725 => calc.result = <<"1", ":", "0", "2", ":", "0", "5">>

\* formatDuration was called with 3725 seconds
C15_Witness ==
  /\ calc.fn = "formatDuration"
  /\ calc.args = <<3725>>
  /\ calc.result = <<"1", ":", "0", "2", ":", "0", "5">>

\* --------------------------------------------------------------------- C16
\* C16: in crop mode the region extracted from a width x height image is the
\* square of side min(width, height) at left = floor((width - side) / 2),
\* top = floor((height - side) / 2); it lies inside the image, is centred to
\* within one pixel, and is resized to size x size.  4000 x 2000 at 1000
\* gives 2000 x 2000 at left 1000, top 0.
C16_CropRegion ==
  (calc.fn = "cropToSquare" /\ calc.args[4] = "crop" /\ calc.result.op # "jpeg")
  => LET width == calc.args[1]
         height == calc.args[2]
         size == calc.args[3]
         e == calc.result.extract
         side == Min(width, height)
     IN /\ calc.result.op = "crop"
        /\ e.width = side /\ e.height = side
        /\ 2 * e.left <= width - side /\ width - side <= 2 * e.left + 1
        /\ 2 * e.top <= height - side /\ height - side <= 2 * e.top + 1
        /\ e.left >= 0 /\ e.top >= 0
        /\ e.left + e.width <= width /\ e.top + e.height <= height
        /\ calc.result.resize = [width |-> size, height |-> size]
        /\ (width = 4000 /\ height = 2000 /\ size = 1000)
           => e = [left |-> 1000, top |-> 0, width |-> 2000, height |-> 2000]

\* cropToSquare was called in crop mode on an image higher than wide whose
\* remainder is odd
C16_Witness ==
  /\ calc.fn = "cropToSquare" /\ calc.args[4] = "crop"
  /\ calc.args[1] = 2 /\ calc.args[2] = 5
  /\ calc.result.op = "crop"
  /\ calc.result.extract = [left |-> 0, top |-> 1, width |-> 2, height |-> 2]

\* --------------------------------------------------------------------- C17
\* C17: in pad mode the scaled content has its larger side equal to size and
\* both sides at least 1; the margins are not negative, floor of half the
\* remainder before and ceil after, and content plus margins is size x size.
\* 4000 x 2000 at 1000 gives 1000 x 500 with top 250 and bottom 250.
C17_PadCanvas ==
  (calc.fn = "cropToSquare" /\ calc.args[4] = "pad" /\ calc.result.op # "jpeg")
  => LET width == calc.args[1]
         height == calc.args[2]
         size == calc.args[3]
         c == calc.result.resize
         m == calc.result.extend
     IN /\ calc.result.op = "pad"
        /\ Max(c.width, c.height) = size
        /\ c.width >= 1 /\ c.height >= 1
        /\ m.top >= 0 /\ m.bottom >= 0 /\ m.left >= 0 /\ m.right >= 0
        /\ m.top <= m.bottom /\ m.bottom <= m.top + 1
        /\ m.left <= m.right /\ m.right <= m.left + 1
        /\ c.width + m.left + m.right = size
        /\ c.height + m.top + m.bottom = size
        /\ (width = 4000 /\ height = 2000 /\ size = 1000)
           => /\ c = [width |-> 1000, height |-> 500]
              /\ m.top = 250 /\ m.bottom = 250

\* --------------------------------------------------------------------- C19
\* C19: in the document the cache holds no two items have the same
\* identifier, and the identifier of every item is the one generateStableGuid
\* computes from that item's path and the length of its enclosure.
C19_UniqueIdentifiers ==
  LET items == rssCache.data.items IN
  /\ \A j, k \in DOMAIN items : j # k => items[j].guid # items[k].guid
  /\ \A k \in DOMAIN items :
       items[k].guid = <<"urn:uuid", "sha256", <<items[k].path, items[k].size>>>>

\* the cache holds a document of two items of different sizes, one of them
\* with an identifier taken from the memo table
C19_Witness ==
  /\ Len(rssCache.data.items) = 2
  /\ rssCache.data.items[1].size # rssCache.data.items[2].size
  /\ \E k \in 1..2 : rssCache.data.items[k].memoHit

\* --------------------------------------------------------------------- C20
\* C20: every request that was accepted is answered: a handler that is in
\* flight, in its rebuild or before it, eventually returns.
C20_RequestsAnswered ==
  \A r \in Reqs : (req[r].pc # "idle") ~> (req[r].pc = "idle")

\* --------------------------------------------------------------------- C23
\* the value a dotted path addresses: at every part a list stands for its
\* first element, in which the part is then looked up; a list addressed at
\* the end stands for its first element as well
C23_Unwrap(v) == IF v.t = "array" THEN Index0(v) ELSE v
RECURSIVE C23_Addressed(_, _)
C23_Addressed(value, parts) ==
  IF parts = <<>> THEN C23_Unwrap(value)
  ELSE LET v == C23_Unwrap(value) IN
       IF v.t = "object" THEN C23_Addressed(Prop(v, Head(parts)), Tail(parts))
       ELSE Undefined

\* C23: getTagValue returns the value its dotted path addresses, looking each
\* part up in the first element of a list it meets on the way, and returns
\* null exactly when that value is absent (undefined, null or empty).
C23_WalksEveryPart ==
  calc.fn = "getTagValue"
  => LET addressed == C23_Addressed(calc.args[1], Split(calc.args[2], ".")) IN
     /\ calc.result = OrNull(addressed)
     /\ calc.result = Null <=> ~Truthy(addressed)

\* --------------------------------------------------------------------- C21
\* the non-empty values of the free-form (TXXX) frames whose description is
\* one of the aliases, whatever its case
C21_FreeForm(metadata, aliases) ==
  {NativeTags(metadata)[k].value : k \in
     {j \in DOMAIN NativeTags(metadata) :
        /\ IsTxxx(NativeTags(metadata)[j])
        /\ DescLower(NativeTags(metadata)[j].id.desc) \in aliases
        /\ Truthy(NativeTags(metadata)[j].value)}}
\* value is what the priority chain gives
C21_Chain(value, freeForm, structured, fallback) ==
  IF freeForm # {} THEN value \in freeForm
  ELSE IF Truthy(structured) THEN value = structured
  ELSE IF Truthy(fallback) THEN value = fallback
  ELSE value = Dash

\* C21: every field of the description is resolved by the chain free-form
\* tag (present and not empty), structured field, caller's fallback, "-",
\* each field with the links it has; no field is rendered empty.
C21_PriorityChain ==
  calc.fn = "generateTrackDescription"
  => LET metadata == calc.args[1]
         f == calc.result.fields
         at(a, b) == GetTagValue(metadata, Dotted(a, b))
     IN /\ C21_Chain(f.TITLE, {}, at(Common, Title), calc.args[2])
        /\ C21_Chain(f.AUTHOR, {}, at(Common, Artist), calc.args[3])
        /\ C21_Chain(f.ALBUM, {}, at(Common, Album), Null)
        /\ C21_Chain(f.GENRE, {}, at(Common, Genre), Null)
        /\ C21_Chain(f.ORIGINAL_ARTISTS,
                     C21_FreeForm(metadata, {"orig aut", "original artists"}),
                     Or(at(Common, OriginalArtist),
                        FindValue(SelectSeq(NativeTags(metadata), IsTpe2))), Null)
        /\ C21_Chain(f.DATE, {}, Or(at(Common, Date), at(Format, Timestamp)), Null)
        /\ C21_Chain(f.LABEL, C21_FreeForm(metadata, {"label"}), Null, Null)
        /\ C21_Chain(f.DJ, C21_FreeForm(metadata, {"dj"}), Null, Null)
        /\ C21_Chain(SafeDisplay(calc.result.credits),
                     C21_FreeForm(metadata, {"credits"}), Null, Null)
        /\ C21_Chain(f.RELEASE_LINK, C21_FreeForm(metadata, {"release link"}), Null,
                     calc.args[4])
        /\ \A k \in DOMAIN f : f[k] # Str("")

\* --------------------------------------------------------------------- C22
\* the description ends with the credits block
C22_HasBlock(description) ==
  \E k \in DOMAIN description : description[k] = Text("Credits")

\* C22: with the configured template and with the built-in one, the
\* description is the rendered fields followed by the credits block when
\* credits is neither "-" nor empty, and the rendered fields alone otherwise.
C22_CreditsBlock ==
  calc.fn = "generateTrackDescription"
  => LET credits == calc.result.credits
         d == calc.result.description
         n == IF calc.args[5] THEN Len(DescriptionTemplate) ELSE 15
     IN /\ C22_HasBlock(d) <=> (credits # Dash /\ credits # Str(""))
        /\ IF C22_HasBlock(d)
           THEN /\ Len(d) = n + 2
                /\ d[n + 1] = Text("Credits")
                /\ d[n + 2] = Text(credits.v)
           ELSE Len(d) = n

\* the configured template was rendered for a track whose credits frame
\* holds a text, and the block is there
C22_Witness ==
  /\ calc.fn = "generateTrackDescription"
  /\ calc.args[5]
  /\ calc.result.credits = Str("c")
  /\ C22_HasBlock(calc.result.description)

\* --------------------------------------------------------------------- C24
\* C24: while the process runs, every step leaves each key of fileGuidCache
\* in the table with the value it had, and every value in the table is the
\* identifier computed from its key; only a restart of the process empties
\* the table.
C24_AppendOnly ==
  /\ [](\A k \in DOMAIN fileGuidCache : fileGuidCache[k] = Sha256Uuid(k))
  /\ [][Restart \/ \A k \in DOMAIN fileGuidCache :
                     /\ k \in DOMAIN fileGuidCache'
                     /\ fileGuidCache'[k] = fileGuidCache[k]]_vars

\* the item lists that can be looked at: under construction, cached, served
C24_Lists ==
  {req[r].items : r \in Reqs} \cup {req[r].resp.doc.items : r \in Reqs}
  \cup {rssCache.data.items}

\* two builds overlapped and each put one key into the table: the first took
\* the identifier of file a from the table and computed that of file b, the
\* second did the reverse; the table holds both keys
C24_Witness ==
  /\ Cardinality(DOMAIN fileGuidCache) = 2
  /\ \E l1, l2 \in C24_Lists :
       /\ \E x \in Range(l1) : x.path = "b" /\ ~x.memoHit
       /\ \E x \in Range(l1) : x.path = "a" /\ x.memoHit
       /\ \E y \in Range(l2) : y.path = "b" /\ y.memoHit
       /\ \E y \in Range(l2) : y.path = "a" /\ ~y.memoHit

\* --------------------------------------------------------------------- C27
\* C27: a cover file is derived and written only when the covers directory
\* does not hold it yet, so that no key is ever written twice; this for the
\* track covers and for the channel cover.
C27_DerivedOnce ==
  [][\A r \in Reqs :
       /\ (/\ req[r].pc = "trackDerive" /\ Steps(r)
           /\ \E it \in BuiltItems(r)' :
                it.path = req[r].files[req[r].i] /\ it.coverOutcome = "derived")
          => TrackCoverFilename(req[r].files[req[r].i], req[r].cur) \notin coverStore
       /\ (req[r].pc = "chanDerive" /\ Steps(r) /\ req'[r].chan # NoUrl)
          => ChannelCoverFilename \notin coverStore]_vars

\* --------------------------------------------------------------------- C28
\* C28: every /rss.xml request that is answered with success is answered with
\* a document, the one the entry holds at that moment, whatever /refresh-rss
\* and other /rss.xml requests have done to the entry in between.
C28_ServesDocument ==
  /\ [](\A r \in Reqs :
          (req[r].kind = "rss" /\ req[r].resp.status = "ok")
          => req[r].resp.doc # NoDoc)
  /\ [][\A r \in Reqs :
          (req[r].kind = "rss" /\ Steps(r) /\ req'[r].resp.status = "ok")
          => (req'[r].resp.doc = rssCache'.data /\ rssCache'.data # NoDoc)]_vars

\* a /rss.xml request was answered with the document it built while a
\* /refresh-rss request, which has cleared the entry, is still building
C28_Witness ==
  \E r1, r2 \in Reqs :
    /\ req[r1].kind = "rss" /\ req[r1].pc = "idle"
    /\ req[r1].resp.status = "ok" /\ req[r1].resp.rebuilt
    /\ req[r1].resp.doc # NoDoc
    /\ req[r2].kind = "refresh" /\ InBuild(r2)

\* --------------------------------------------------------------------- C29
\* the entry holds what request r writes when its rebuild has succeeded
C29_WrittenBy(r, cache) ==
  /\ cache.data # NoDoc
  /\ cache.data.base = req[r].host
  /\ cache.fileHash = req[r].hash
  /\ cache.lastUpdated = IF req[r].kind = "rss" THEN req[r].now ELSE clock

\* C29: in every state a handler can be suspended in, the entry has no
\* document, build time 0 and no signature, or it has all three; a step that
\* changes one of the three fields clears all three or writes all three from
\* one request.
C29_FieldsAgree ==
  /\ []((rssCache.data = NoDoc <=> rssCache.lastUpdated = 0)
        /\ (rssCache.data = NoDoc <=> rssCache.fileHash = NoHash))
  /\ [][rssCache' # rssCache
        => \/ rssCache' = InitCache
           \/ \E r \in Reqs : InBuild(r) /\ C29_WrittenBy(r, rssCache')]_vars

\* the entry holds the document, the time and the signature of a /rss.xml
\* rebuild that ended after a /refresh-rss request had cleared the entry and
\* while that request is still building
C29_Witness ==
  \E r1, r2 \in Reqs :
    /\ req[r1].kind = "rss" /\ req[r1].pc = "idle" /\ req[r1].resp.rebuilt
    /\ req[r1].resp.status = "ok" /\ req[r1].resp.doc = rssCache.data
    /\ rssCache.lastUpdated > 0 /\ rssCache.fileHash # NoHash
    /\ req[r2].kind = "refresh" /\ InBuild(r2)

\* --------------------------------------------------------------------- C30
\* C30: the document a /rss.xml request is answered with has its enclosure
\* URLs, its channel cover URL and its track cover URLs formed from the base
\* URL of that request.
C30_OwnBaseUrl ==
  \A r \in Reqs :
    (req[r].kind = "rss" /\ req[r].resp.status = "ok")
    => LET doc == req[r].resp.doc
           baseUrl == GetBaseUrl(HostOf[r])
       IN /\ doc.base = baseUrl
          /\ doc.chan # NoUrl => doc.chan.base = baseUrl
          /\ \A it \in Range(doc.items) : it.cover # NoUrl => it.cover.base = baseUrl

\* --------------------------------------------------------------------- C26
\* the entry's document was stored by a /rss.xml rebuild
C26_StoredByRss ==
  \E q \in Reqs :
    /\ req[q].kind = "rss" /\ req[q].pc = "idle"
    /\ req[q].resp.status = "ok" /\ req[q].resp.rebuilt
    /\ req[q].resp.doc = rssCache.data

\* C26: a step that replaces the entry's document puts there a document
\* built from a scan that is not older than the scan of the document it
\* replaces, and a /rss.xml rebuild that replaces the entry of another
\* /rss.xml rebuild does not lower the build time.
C26_LatestScanWins ==
  [][(rssCache.data # NoDoc /\ rssCache'.data # NoDoc /\ rssCache' # rssCache)
     => /\ rssCache'.data.scan.no >= rssCache.data.scan.no
        /\ (C26_StoredByRss /\ \E r \in Reqs : req[r].kind = "rss" /\ Steps(r))
           => rssCache'.lastUpdated >= rssCache.lastUpdated]_vars

\* --------------------------------------------------------------------- C25
\* C25: when /rss.xml answers with the cached document without rebuilding,
\* the files that document was built from have the signature of the library
\* as it is now.
C25_CacheCoherent ==
  [][\A r \in Reqs :
       (/\ req[r].kind = "rss" /\ req[r].pc = "hash" /\ Steps(r)
        /\ req'[r].pc = "idle" /\ ~req'[r].resp.rebuilt)
       => GetTracksFolderHash(rssCache.data.scan.files)
          = GetTracksFolderHash(FindAudioFiles(library))]_vars

====
